---- MODULE Spec2Model ----
(***************************************************************************)
(* Model of src/planetPosition.js: computeEclipticCoordinates,             *)
(* convertToICRF, solveKeplerEquation and the two Keplerian element        *)
(* tables.                                                                 *)
(*                                                                         *)
(* JavaScript Numbers are modelled in fixed point:                         *)
(*   angles        in microdegrees        (1 degree = 10^6),               *)
(*   lengths       in micro-AU            (1 AU     = 10^6),               *)
(*   eccentricity, sines, cosines in 10^-8 (1.0     = 10^8),               *)
(*   time          in half-days (the instant is a count of half-days since *)
(*                 the Unix epoch; T is a count of half-days since J2000,   *)
(*                 i.e. T centuries = T / 73050).                          *)
(* Products and quotients truncate toward zero.                            *)
(***************************************************************************)
EXTENDS Integers, Sequences, FiniteSets, TLC

\* ------------------------------------------------------------ number model

\* 1.0 for dimensionless values (e, sin, cos): resolution 10^-8
Scale == 100000000
\* 1 degree (or 1 AU) in model units: resolution 10^-6
Micro == 1000000
\* limb used to multiply two fixed-point numbers inside 32 bits
Limb == 10000

Abs(x) == IF x < 0 THEN -x ELSE x
Sgn(x) == IF x < 0 THEN -1 ELSE 1

\* a*b/Scale for a, b >= 0, exact floor, by limbs
MulU(a, b) ==
    LET ah == a \div Limb
        al == a % Limb
        bh == b \div Limb
        bl == b % Limb
    IN  ah * bh + ((ah * bl + al * bh + ((al * bl) \div Limb)) \div Limb)

\* the product x*y of a value x and a dimensionless y (or the reverse)
Mul(x, y) == Sgn(x) * Sgn(y) * MulU(Abs(x), Abs(y))

\* floor(r * 10^digits / d) for 0 <= r < d, long division
RECURSIVE LongDiv(_, _, _)
LongDiv(r, d, digits) ==
    IF digits = 0 THEN 0
    ELSE LET r10 == r * 10
         IN  (r10 \div d) * (10 ^ (digits - 1)) + LongDiv(r10 % d, d, digits - 1)

\* the quotient x/d of a value x by a dimensionless d > 0
Div(x, d) ==
    LET ax == Abs(x)
    IN  Sgn(x) * ((ax \div d) * Scale + LongDiv(ax % d, d, 8))

\* <<floor(a*b/c), (a*b) mod c>> for a, b >= 0, 0 < c < 2^27, without overflow:
\* b is taken three bits at a time
RECURSIVE MulDivQR(_, _, _)
MulDivQR(a, b, c) ==
    IF b = 0 THEN <<0, 0>>
    ELSE LET h == MulDivQR(a, b \div 8, c)
             d == b % 8
             s == 8 * h[2] + d * (a % c)
         IN  <<8 * h[1] + d * (a \div c) + (s \div c), s % c>>

\* ------------------------------------------------------------ Math.sin, Math.cos, Math.sqrt

\* Math.PI/180 * 100, as 1 + DegToRadFrac/Scale
DegToRadFrac == 74532925
\* 180/Math.PI / 100, in units of Scale
RadToDegFrac == 57295780

\* x - x^3/3! + x^5/5! - ... : t is the current term, n the next factor
RECURSIVE SinSeries(_, _, _)
SinSeries(t, x2, n) ==
    IF t = 0 THEN 0
    ELSE t - SinSeries(MulU(t, x2) \div (n * (n + 1)), x2, n + 2)

\* sin of an angle d in 0..90 degrees
SinQ(d) ==
    LET x == d + MulU(d, DegToRadFrac)
    IN  SinSeries(x, MulU(x, x), 2)

\* Math.sin(deg2rad * x), x in microdegrees
SinDeg(x) ==
    LET r == x % (360 * Micro)
    IN  IF r <= 90 * Micro THEN SinQ(r)
        ELSE IF r <= 180 * Micro THEN SinQ(180 * Micro - r)
        ELSE IF r <= 270 * Micro THEN -SinQ(r - 180 * Micro)
        ELSE -SinQ(360 * Micro - r)

\* Math.cos(deg2rad * x), x in microdegrees
CosDeg(x) == SinDeg((x % (360 * Micro)) + 90 * Micro)

\* the largest s in lo..hi with s*s <= v
RECURSIVE SqrtBetween(_, _, _)
SqrtBetween(v, lo, hi) ==
    IF lo >= hi THEN lo
    ELSE LET mid == (lo + hi + 1) \div 2
         IN  IF MulU(mid, mid) <= v THEN SqrtBetween(v, mid, hi)
             ELSE SqrtBetween(v, lo, mid - 1)

\* Math.sqrt(v), 0 <= v <= 1
Sqrt(v) == SqrtBetween(v, 0, Scale)

\* ------------------------------------------------------------ the element tables

\* a table cell: sign, whole part and eight decimals, as the source writes it
P(whole, frac) == [sign |-> 1, whole |-> whole, frac |-> frac]
N(whole, frac) == [sign |-> -1, whole |-> whole, frac |-> frac]

keplerianElements2050Initial ==
  <<
    <<"Mercury", P(0, 38709927), P(0, 20563593), P(7, 00497902), P(252, 25032350), P(77, 45779628), P(48, 33076593), P(0, 00000037), P(0, 00001906), N(0, 00594749), P(149472, 67411175), P(0, 16047689), N(0, 12534081), P(0, 00000000), P(0, 00000000), P(0, 00000000), P(0, 00000000)>>,
    <<"Venus", P(0, 72333566), P(0, 00677672), P(3, 39467605), P(181, 97909950), P(131, 60246718), P(76, 67984255), P(0, 00000390), N(0, 00004107), N(0, 00078890), P(58517, 81538729), P(0, 00268329), N(0, 27769418), P(0, 00000000), P(0, 00000000), P(0, 00000000), P(0, 00000000)>>,
    <<"EM Bary", P(1, 00000261), P(0, 01671123), N(0, 00001531), P(100, 46457166), P(102, 93768193), P(0, 00000000), P(0, 00000562), N(0, 00004392), N(0, 01294668), P(35999, 37244981), P(0, 32327364), P(0, 00000000), P(0, 00000000), P(0, 00000000), P(0, 00000000), P(0, 00000000)>>,
    <<"Mars", P(1, 52371034), P(0, 09339410), P(1, 84969142), N(4, 55343205), N(23, 94362959), P(49, 55953891), P(0, 00001847), N(0, 00007882), N(0, 00813131), P(19140, 30268499), P(0, 44441088), N(0, 29257343), P(0, 00000000), P(0, 00000000), P(0, 00000000), P(0, 00000000)>>,
    <<"Jupiter", P(5, 20288700), P(0, 04838624), P(1, 30439695), P(34, 39644051), P(14, 72847983), P(100, 47390909), N(0, 00011607), N(0, 00013253), N(0, 00183714), P(3034, 74612775), P(0, 21252668), P(0, 20469106), P(0, 00000000), P(0, 00000000), P(0, 00000000), P(0, 00000000)>>,
    <<"Saturn", P(9, 53667594), P(0, 05386179), P(2, 48599187), P(49, 95424423), P(92, 59887831), P(113, 66242448), N(0, 00125060), N(0, 00050991), P(0, 00193609), P(1222, 49362201), N(0, 41897216), N(0, 28867794), P(0, 00000000), P(0, 00000000), P(0, 00000000), P(0, 00000000)>>,
    <<"Uranus", P(19, 18916464), P(0, 04725744), P(0, 77263783), P(313, 23810451), P(170, 95427630), P(74, 01692503), N(0, 00196176), N(0, 00004397), N(0, 00242939), P(428, 48202785), P(0, 40805281), P(0, 04240589), P(0, 00000000), P(0, 00000000), P(0, 00000000), P(0, 00000000)>>,
    <<"Neptune", P(30, 06992276), P(0, 00859048), P(1, 77004347), N(55, 12002969), P(44, 96476227), P(131, 78422574), P(0, 00026291), P(0, 00005105), P(0, 00035372), P(218, 45945325), N(0, 32241464), N(0, 00508664), P(0, 00000000), P(0, 00000000), P(0, 00000000), P(0, 00000000)>>,
    <<"Pluto", P(39, 48211675), P(0, 24882730), P(17, 14001206), P(238, 92903833), P(224, 06891629), P(110, 30393684), N(0, 00031596), P(0, 00005170), P(0, 00004818), P(145, 20780515), N(0, 04062942), N(0, 01183482), P(0, 00000000), P(0, 00000000), P(0, 00000000), P(0, 00000000)>>
  >>

keplerianElements3000Initial ==
  <<
    <<"Mercury", P(0, 38709843), P(0, 20563661), P(7, 00559432), P(252, 25166724), P(77, 45771895), P(48, 33961819), P(0, 00000000), P(0, 00002123), N(0, 00590158), P(149472, 67486623), P(0, 15940013), N(0, 12214182), P(0, 00000000), P(0, 00000000), P(0, 00000000), P(0, 00000000)>>,
    <<"Venus", P(0, 72332102), P(0, 00676399), P(3, 39777545), P(181, 97970850), P(131, 76755713), P(76, 67261496), N(0, 00000026), N(0, 00005107), P(0, 00043494), P(58517, 81560260), P(0, 05679648), N(0, 27274174), P(0, 00000000), P(0, 00000000), P(0, 00000000), P(0, 00000000)>>,
    <<"EM Bary", P(1, 00000018), P(0, 01673163), N(0, 00054346), P(100, 46691572), P(102, 93005885), N(5, 11260389), N(0, 00000003), N(0, 00003661), N(0, 01337178), P(35999, 37306329), P(0, 31795260), N(0, 24123856), P(0, 00000000), P(0, 00000000), P(0, 00000000), P(0, 00000000)>>,
    <<"Mars", P(1, 52371243), P(0, 09336511), P(1, 85181869), N(4, 56813164), N(23, 91744784), P(49, 71320984), P(0, 00000097), P(0, 00009149), N(0, 00724757), P(19140, 29934243), P(0, 45223625), N(0, 26852431), P(0, 00000000), P(0, 00000000), P(0, 00000000), P(0, 00000000)>>,
    <<"Jupiter", P(5, 20248019), P(0, 04853590), P(1, 29861416), P(34, 33479152), P(14, 27495244), P(100, 29282654), N(0, 00002864), P(0, 00018026), N(0, 00322699), P(3034, 90371757), P(0, 18199196), P(0, 13024619), N(0, 00012452), P(0, 06064060), N(0, 35635438), P(38, 35125000)>>,
    <<"Saturn", P(9, 54149883), P(0, 05550825), P(2, 49424102), P(50, 07571329), P(92, 86136063), P(113, 63998702), N(0, 00003065), N(0, 00032044), P(0, 00451969), P(1222, 11494724), P(0, 54179478), N(0, 25015002), P(0, 00025899), N(0, 13434469), P(0, 87320147), P(38, 35125000)>>,
    <<"Uranus", P(19, 18797948), P(0, 04685740), P(0, 77298127), P(314, 20276625), P(172, 43404441), P(73, 96250215), N(0, 00020455), N(0, 00001550), N(0, 00180155), P(428, 49512595), P(0, 09266985), P(0, 05739699), P(0, 00058331), N(0, 97731848), P(0, 17689245), P(7, 67025000)>>,
    <<"Neptune", P(30, 06952752), P(0, 00895439), P(1, 77005520), P(304, 22289287), P(46, 68158724), P(131, 78635853), P(0, 00006447), P(0, 00000818), P(0, 00022400), P(218, 46515314), P(0, 01009938), N(0, 00606302), N(0, 00041348), P(0, 68346318), N(0, 10162547), P(7, 67025000)>>,
    <<"Pluto", P(39, 48686035), P(0, 24885238), P(17, 14104260), P(238, 96535011), P(224, 09702598), P(110, 30167986), P(0, 00449751), P(0, 00006016), P(0, 00000501), P(145, 18042903), N(0, 00968827), N(0, 00809981), N(0, 01262724), P(0, 00000000), P(0, 00000000), P(0, 00000000)>>
  >>


\* a caller's own table: circular orbits whose mean anomaly L0 - W0 sits on and
\* around the edges of [-180, 180]
boundaryElements ==
  <<
    <<"M=180",   P(1, 00000000), P(0, 00000000), P(0, 00000000), P(180, 00000000), P(0, 00000000), P(0, 00000000), P(0, 00000000), P(0, 00000000), P(0, 00000000), P(0, 00000000), P(0, 00000000), P(0, 00000000), P(0, 00000000), P(0, 00000000), P(0, 00000000), P(0, 00000000)>>,
    <<"M=-180",  P(1, 00000000), P(0, 00000000), P(0, 00000000), N(180, 00000000), P(0, 00000000), P(0, 00000000), P(0, 00000000), P(0, 00000000), P(0, 00000000), P(0, 00000000), P(0, 00000000), P(0, 00000000), P(0, 00000000), P(0, 00000000), P(0, 00000000), P(0, 00000000)>>,
    <<"M>180",   P(1, 00000000), P(0, 00000000), P(0, 00000000), P(180, 00000100), P(0, 00000000), P(0, 00000000), P(0, 00000000), P(0, 00000000), P(0, 00000000), P(0, 00000000), P(0, 00000000), P(0, 00000000), P(0, 00000000), P(0, 00000000), P(0, 00000000), P(0, 00000000)>>,
    <<"M<-180",  P(1, 00000000), P(0, 00000000), P(0, 00000000), N(180, 00000100), P(0, 00000000), P(0, 00000000), P(0, 00000000), P(0, 00000000), P(0, 00000000), P(0, 00000000), P(0, 00000000), P(0, 00000000), P(0, 00000000), P(0, 00000000), P(0, 00000000), P(0, 00000000)>>,
    <<"M=540",   P(1, 00000000), P(0, 00000000), P(0, 00000000), P(540, 00000000), P(0, 00000000), P(0, 00000000), P(0, 00000000), P(0, 00000000), P(0, 00000000), P(0, 00000000), P(0, 00000000), P(0, 00000000), P(0, 00000000), P(0, 00000000), P(0, 00000000), P(0, 00000000)>>,
    <<"M=-400",  P(1, 00000000), P(0, 00000000), P(0, 00000000), N(400, 00000000), P(0, 00000000), P(0, 00000000), P(0, 00000000), P(0, 00000000), P(0, 00000000), P(0, 00000000), P(0, 00000000), P(0, 00000000), P(0, 00000000), P(0, 00000000), P(0, 00000000), P(0, 00000000)>>
  >>

\* ------------------------------------------------------------ time

\* half-days in a Julian century: 36525 days
HalfDaysPerCentury == 2 * 36525
\* 2440587.5, the Julian date of the Unix epoch, in half-days
UnixEpochJD == 2 * 2440587 + 1
\* 2451545, the Julian date of J2000.0, in half-days
J2000JD == 2 * 2451545

\* mutant: the half day of 2440587.5 dropped
JulianEphemerisDateWholeDay(UNIXMilliTime) == UNIXMilliTime + (UnixEpochJD - 1)

\* let Teph = UNIXMilliTime/1000/86400 + 2440587.5
JulianEphemerisDate(UNIXMilliTime) == UNIXMilliTime + UnixEpochJD

\* let T = (Teph-2451545)/36525, as the numerator over HalfDaysPerCentury
CenturiesPastJ2000(Teph) == Teph - J2000JD

\* ------------------------------------------------------------ wide angles
\* The mean longitude runs to millions of degrees: it is kept as whole degrees
\* plus 0..10^6-1 microdegrees.

WFromMicro(n) == [deg |-> n \div Micro, udeg |-> n % Micro]
WToMicro(x) == x.deg * Micro + x.udeg
WNeg(x) ==
    IF x.udeg = 0 THEN [deg |-> -x.deg, udeg |-> 0]
    ELSE [deg |-> -x.deg - 1, udeg |-> Micro - x.udeg]
WAdd(x, y) ==
    [deg |-> x.deg + y.deg + ((x.udeg + y.udeg) \div Micro),
     udeg |-> (x.udeg + y.udeg) % Micro]

\* ------------------------------------------------------------ element evaluation

\* a base value (columns 1..6, 13..16) in micro-units
CellMicro(c) == c.sign * (c.whole * Micro + (c.frac \div 100))
\* a base value in units of Scale (the eccentricity)
CellScale(c) == c.sign * (c.whole * Scale + c.frac)

\* rate*T in micro-units, wide: rate per century, T in half-days
RateTimesT(c, T) ==
    LET t   == Abs(T)
        wq  == MulDivQR(c.whole, t, HalfDaysPerCentury)
        wr  == MulDivQR(wq[2], Micro, HalfDaysPerCentury)[1]
        fq  == MulDivQR(c.frac, t, 100 * HalfDaysPerCentury)[1]
        mag == [deg |-> wq[1] + ((wr + fq) \div Micro), udeg |-> (wr + fq) % Micro]
    IN  IF c.sign * Sgn(T) < 0 THEN WNeg(mag) ELSE mag

\* rate*T in units of Scale
RateTimesTScale(c, T) ==
    LET t  == Abs(T)
        wq == MulDivQR(c.whole, t, HalfDaysPerCentury)
        wr == MulDivQR(wq[2], Scale, HalfDaysPerCentury)[1]
        fq == MulDivQR(c.frac, t, HalfDaysPerCentury)[1]
    IN  c.sign * Sgn(T) * (wq[1] * Scale + wr + fq)

\* keplerianElementsTable[planetIndex][column]
Cell(table, planetIndex, column) == table[planetIndex + 1][column + 1]

\* let a = a0+at*T (likewise I, W, O): lines 16-18, 22-24, 28-33
Linear(table, planetIndex, column, T) ==
    CellMicro(Cell(table, planetIndex, column))
      + WToMicro(RateTimesT(Cell(table, planetIndex, column + 6), T))

\* mutant: the rate read from column 9 (It) instead of column 8 (et)
EccentricityWrongColumn(table, planetIndex, T) ==
    CellScale(Cell(table, planetIndex, 2)) + RateTimesTScale(Cell(table, planetIndex, 9), T)

\* let e = e0+et*T: lines 19-21
Eccentricity(table, planetIndex, T) ==
    CellScale(Cell(table, planetIndex, 2)) + RateTimesTScale(Cell(table, planetIndex, 8), T)

\* let L = L0+Lt*T: lines 25-27
MeanLongitude(table, planetIndex, T) ==
    WAdd(WFromMicro(CellMicro(Cell(table, planetIndex, 4))),
         RateTimesT(Cell(table, planetIndex, 10), T))

\* b*Math.pow(T,2)
SquareTerm(b, T) ==
    b.sign * MulDivQR(Abs(RateTimesTScale(b, T)), Abs(T), 100 * HalfDaysPerCentury)[1]

\* let M = L-W+b*Math.pow(T,2)+c*Math.cos(deg2rad*f*T)+s*Math.sin(deg2rad*f*T), line 45
MeanAnomaly(L, W, b, c, s, f, T) ==
    LET fT == WToMicro(RateTimesT(f, T))
    IN  WAdd(WAdd(L, WNeg(WFromMicro(W))),
             WFromMicro(SquareTerm(b, T)
                          + Mul(CellMicro(c), CosDeg(fT))
                          + Mul(CellMicro(s), SinDeg(fT))))

\* M < -180 || M > 180
OutsideRange(x) == x.deg < -180 \/ x.deg > 180 \/ (x.deg = 180 /\ x.udeg > 0)

\* M % 360: the remainder takes the sign of M
Remainder360(x) ==
    IF x.deg >= 0 THEN [deg |-> x.deg % 360, udeg |-> x.udeg]
    ELSE LET y == WNeg(x) IN WNeg([deg |-> y.deg % 360, udeg |-> y.udeg])

\* mutant: always reduced, with a floored modulo, into [0, 360)
NormalizeFloored(x) == WToMicro([deg |-> x.deg % 360, udeg |-> x.udeg])

\* if(M < -180 || M > 180) M = M % 360, line 46
NormalizeMeanAnomaly(x) == WToMicro(IF OutsideRange(x) THEN Remainder360(x) ELSE x)

\* ------------------------------------------------------------ frame transforms

\* mutant: the focus offset -e forgotten
OrbitalXNoFocus(a, e, E) == Mul(a, CosDeg(E))

\* x1, y1: lines 52-53
OrbitalX(a, e, E) == Mul(a, CosDeg(E) - e)
OrbitalY(a, e, E) == Mul(Mul(a, Sqrt(Scale - Mul(e, e))), SinDeg(E))

\* Xecl, Yecl, Zecl: lines 57-67
EclipticFrame(x1, y1, w, O, I) ==
    LET cosw == CosDeg(w)
        sinw == SinDeg(w)
        cosO == CosDeg(O)
        sinO == SinDeg(O)
        cosI == CosDeg(I)
        sinI == SinDeg(I)
        Xecl == Mul(Mul(cosw, cosO) - Mul(Mul(sinw, sinO), cosI), x1)
                  + Mul(Mul(-sinw, cosO) - Mul(Mul(cosw, sinO), cosI), y1)
        Yecl == Mul(Mul(cosw, sinO) + Mul(Mul(sinw, cosO), cosI), x1)
                  + Mul(Mul(-sinw, sinO) + Mul(Mul(cosw, cosO), cosI), y1)
        Zecl == Mul(Mul(sinw, sinI), x1) + Mul(Mul(cosw, sinI), y1)
    IN  <<Xecl, Yecl, Zecl>>

\* let E = 23.43928, in microdegrees
Obliquity == 23439280

\* Xeq, Yeq, Zeq: lines 76-85 (EclipticCoordinates[0..2] are [1..3] here)
EquatorialFrame(EclipticCoordinates) ==
    LET cosE == CosDeg(Obliquity)
        sinE == SinDeg(Obliquity)
        Xeq == EclipticCoordinates[1]
        Yeq == Mul(cosE, EclipticCoordinates[2]) - Mul(sinE, EclipticCoordinates[3])
        Zeq == Mul(sinE, EclipticCoordinates[2]) + Mul(cosE, EclipticCoordinates[3])
    IN  <<Xeq, Yeq, Zeq>>

\* ------------------------------------------------------------ solveKeplerEquation

\* let tolerance = 10e-6 (degrees)
tolerance == 10
\* the loop's cap: i < 1000
MaxIterations == 1000

\* mutant: the factor e forgotten
DegreeEccentricityUnscaled(e) == Mul(Scale, RadToDegFrac)

\* let e1 = 180/Math.PI*e
DegreeEccentricity(e) == Mul(e, RadToDegFrac)

\* let E0 = M + e1*Math.sin(M*deg2rad)
InitialGuess(M, e1) == M + Mul(e1, SinDeg(M))

\* dM = M - (E1 - e1*Math.sin(deg2rad*E1))
DeltaM(M, e1, E1) == M - (E1 - Mul(e1, SinDeg(E1)))

\* 1 - e*Math.cos(deg2rad*E1)
Divisor(e, E1) == Scale - Mul(e, CosDeg(E1))

\* dE = dM/(1 - e*Math.cos(deg2rad*E1))
DeltaE(dM, e, E1) == Div(dM, Divisor(e, E1))

\* mutant: the cap on i forgotten
LoopConditionNoCap(i, difE1E2) == difE1E2 > tolerance

\* (i < 1000) && (difE1E2 > tolerance)
LoopCondition(i, difE1E2) == i < MaxIterations /\ difE1E2 > tolerance

VARIABLES
    tableWrites, \* the cells of the two tables assigned since the script was loaded:
                 \* <<table name, planetIndex, column>> -> the cell's new value
    pc,          \* "idle", "loop" (inside solveKeplerEquation), "done", "converted"
    caller,      \* who called solveKeplerEquation: "compute", "direct", or "none"
    args,        \* computeEclipticCoordinates' arguments
    frame,       \* computeEclipticCoordinates' locals
    M, e,        \* solveKeplerEquation's parameters
    e1, E0, E1, E2, dM, dE, difE1E2, i,   \* its locals
    E,           \* its return value
    EclipticCoordinates,     \* what computeEclipticCoordinates returned
    ICRFCoordinates          \* what convertToICRF returned

\* a table as it stands: its literal, with the cells assigned since
Current(name, literal) ==
    [r \in DOMAIN literal |->
        [k \in DOMAIN literal[r] |->
            IF <<name, r - 1, k - 1>> \in DOMAIN tableWrites
            THEN tableWrites[<<name, r - 1, k - 1>>]
            ELSE literal[r][k]]]

\* let keplerianElements2050 = [...]: the 1800 AD - 2050 AD table
keplerianElements2050 == Current("keplerianElements2050", keplerianElements2050Initial)
\* let keplerianElements3000 = [...]: the 3000 BC - 3000 AD table
keplerianElements3000 == Current("keplerianElements3000", keplerianElements3000Initial)

solverVars == <<M, e, e1, E0, E1, E2, dM, dE, difE1E2, i>>
vars == <<tableWrites, pc, caller, args, frame,
          M, e, e1, E0, E1, E2, dM, dE, difE1E2, i, E,
          EclipticCoordinates, ICRFCoordinates>>

\* ------------------------------------------------------------ inputs

\* mean anomalies for direct calls: MGrid + 1 points over [-180, 180]
MGrid == 6
\* eccentricities for direct calls: EGrid points over [0, 0.3), and 0.29
EGrid == 3

MeanAnomalies == {-180 * Micro + k * ((360 * Micro) \div MGrid) : k \in 0..MGrid} \cup {180 * Micro}
Eccentricities == {(k * 3 * (Scale \div 10)) \div EGrid : k \in 0..(EGrid - 1)} \cup {29 * (Scale \div 100)}

\* 2000-01-01T12:00:00Z = 946728000000 ms, in half-days of 43200 s
J2000Instant == 946728000 \div 43200
\* an instant T centuries past J2000, T given in half-centuries
Instant(halfCenturies) == J2000Instant + halfCenturies * (HalfDaysPerCentury \div 2)
\* the instants queried of each table: J2000 and the two ends of its validity
\* interval (T = -2 and 0.5 for 1800-2050 AD, T = -50 and 10 for 3000 BC-3000 AD)
Instants(name) ==
    CASE name = "keplerianElements2050" -> {Instant(-4), Instant(0), Instant(1)}
      [] name = "keplerianElements3000" -> {Instant(-100), Instant(0), Instant(20)}
      [] OTHER -> {Instant(0)}

TableNames == {"keplerianElements2050", "keplerianElements3000", "boundaryElements"}
NoArgs == [keplerianElementsTable |-> "none", planetIndex |-> 0, UNIXMilliTime |-> 0]
NoVector == <<0, 0, 0>>
Zero == [deg |-> 0, udeg |-> 0]
NoFrame == [Teph |-> 0, T |-> 0, a |-> 0, e |-> 0, I |-> 0, L |-> Zero, W |-> 0, O |-> 0,
            w |-> 0, Mraw |-> Zero, M |-> 0, E |-> 0, x1 |-> 0, y1 |-> 0, z1 |-> 0]

\* the table a name denotes
TableOf(name) ==
    CASE name = "keplerianElements2050" -> keplerianElements2050
      [] name = "keplerianElements3000" -> keplerianElements3000
      [] OTHER -> boundaryElements

\* ------------------------------------------------------------ operations

\* computeEclipticCoordinates, lines 11-46: the locals up to the call of the solver
EvaluateElements(table, planetIndex, UNIXMilliTime) ==
    LET Teph == JulianEphemerisDate(UNIXMilliTime)
        T    == CenturiesPastJ2000(Teph)
        L    == MeanLongitude(table, planetIndex, T)
        W    == Linear(table, planetIndex, 5, T)
        O    == Linear(table, planetIndex, 6, T)
        Mraw == MeanAnomaly(L, W, Cell(table, planetIndex, 13), Cell(table, planetIndex, 14),
                            Cell(table, planetIndex, 15), Cell(table, planetIndex, 16), T)
    IN  [Teph |-> Teph, T |-> T,
         a |-> Linear(table, planetIndex, 1, T),
         e |-> Eccentricity(table, planetIndex, T),
         I |-> Linear(table, planetIndex, 3, T),
         L |-> L, W |-> W, O |-> O,
         w |-> W - O,
         Mraw |-> Mraw,
         M |-> NormalizeMeanAnomaly(Mraw),
         E |-> 0, x1 |-> 0, y1 |-> 0, z1 |-> 0]

\* function entry of solveKeplerEquation: lines 91-99 (dE and dM are declared
\* without a value and written before they are read: they start as 0 here)
EnterSolver(m, ecc) ==
    LET ee1 == DegreeEccentricity(ecc)
        g   == InitialGuess(m, ee1)
    IN  /\ M' = m
        /\ e' = ecc
        /\ e1' = ee1
        /\ E0' = g
        /\ E1' = g
        /\ E2' = 0
        /\ dM' = 0
        /\ dE' = 0
        /\ difE1E2' = 1 * Micro
        /\ i' = 0
        /\ E' = 0

Init ==
    /\ tableWrites = << >>
    /\ pc = "idle"
    /\ caller = "none"
    /\ args = NoArgs
    /\ frame = NoFrame
    /\ M = 0 /\ e = 0 /\ e1 = 0 /\ E0 = 0 /\ E1 = 0 /\ E2 = 0
    /\ dM = 0 /\ dE = 0 /\ difE1E2 = 0 /\ i = 0
    /\ E = 0
    /\ EclipticCoordinates = NoVector
    /\ ICRFCoordinates = NoVector

\* computeEclipticCoordinates, lines 11-49: the locals are evaluated and
\* solveKeplerEquation(M, e) is entered
StartCompute(name, planetIndex, UNIXMilliTime) ==
    /\ pc = "idle"
    /\ planetIndex + 1 \in DOMAIN TableOf(name)
    /\ LET f == EvaluateElements(TableOf(name), planetIndex, UNIXMilliTime)
       IN  /\ frame' = f
           /\ EnterSolver(f.M, f.e)
    /\ args' = [keplerianElementsTable |-> name, planetIndex |-> planetIndex,
                UNIXMilliTime |-> UNIXMilliTime]
    /\ pc' = "loop"
    /\ caller' = "compute"
    /\ EclipticCoordinates' = NoVector
    /\ ICRFCoordinates' = NoVector

\* mutant: the evaluated eccentricity stored back into the row
computeEclipticCoordinatesInPlace(name, planetIndex, UNIXMilliTime) ==
    /\ StartCompute(name, planetIndex, UNIXMilliTime)
    /\ tableWrites' = (<<name, planetIndex, 2>> :> P(0, frame'.e)) @@ tableWrites

\* a call computeEclipticCoordinates(table, planetIndex, UNIXMilliTime), run up to
\* its call of solveKeplerEquation on line 49: the table is only read
computeEclipticCoordinates(name, planetIndex, UNIXMilliTime) ==
    /\ StartCompute(name, planetIndex, UNIXMilliTime)
    /\ UNCHANGED tableWrites

\* a direct call solveKeplerEquation(m, ecc)
CallSolveKeplerEquation(m, ecc) ==
    /\ pc = "idle"
    /\ pc' = "loop"
    /\ caller' = "direct"
    /\ EnterSolver(m, ecc)
    /\ args' = NoArgs
    /\ frame' = NoFrame
    /\ EclipticCoordinates' = NoVector
    /\ ICRFCoordinates' = NoVector
    /\ UNCHANGED tableWrites

\* one pass of the for loop body, lines 101-106
LoopIteration ==
    /\ pc = "loop"
    /\ LoopCondition(i, difE1E2)
    /\ LET ddM == DeltaM(M, e1, E1)
           ddE == DeltaE(ddM, e, E1)
       IN  /\ dM' = ddM
           /\ dE' = ddE
           /\ E2' = E1 + ddE
           /\ difE1E2' = Abs(E1 - (E1 + ddE))
    /\ i' = i + 1
    /\ UNCHANGED <<tableWrites, pc, caller, args, frame, M, e, e1, E0, E1, E,
                   EclipticCoordinates, ICRFCoordinates>>

\* return E2 to a direct caller, line 107
ReturnDirect ==
    /\ pc = "loop"
    /\ caller = "direct"
    /\ ~LoopCondition(i, difE1E2)
    /\ E' = E2
    /\ pc' = "done"
    /\ UNCHANGED <<tableWrites, caller, args, frame, solverVars,
                   EclipticCoordinates, ICRFCoordinates>>

\* return E2 to computeEclipticCoordinates, which runs on to its end: lines 49-72
ReturnToCompute ==
    /\ pc = "loop"
    /\ caller = "compute"
    /\ ~LoopCondition(i, difE1E2)
    /\ E' = E2
    /\ LET x1 == OrbitalX(frame.a, frame.e, E2)
           y1 == OrbitalY(frame.a, frame.e, E2)
       IN  /\ frame' = [frame EXCEPT !.E = E2, !.x1 = x1, !.y1 = y1, !.z1 = 0]
           /\ EclipticCoordinates' = EclipticFrame(x1, y1, frame.w, frame.O, frame.I)
    /\ pc' = "done"
    /\ UNCHANGED <<tableWrites, caller, args, solverVars, ICRFCoordinates>>

\* convertToICRF applied to the vector computeEclipticCoordinates returned
convertToICRF ==
    /\ pc = "done"
    /\ caller = "compute"
    /\ ICRFCoordinates' = EquatorialFrame(EclipticCoordinates)
    /\ pc' = "converted"
    /\ UNCHANGED <<tableWrites, caller, args, frame, solverVars, E, EclipticCoordinates>>

\* the caller drops the vectors it was handed; nothing of a query outlives it
Discard ==
    /\ pc \in {"done", "converted"}
    /\ pc' = "idle"
    /\ caller' = "none"
    /\ args' = NoArgs
    /\ frame' = NoFrame
    /\ M' = 0 /\ e' = 0 /\ e1' = 0 /\ E0' = 0 /\ E1' = 0 /\ E2' = 0
    /\ dM' = 0 /\ dE' = 0 /\ difE1E2' = 0 /\ i' = 0
    /\ E' = 0
    /\ EclipticCoordinates' = NoVector
    /\ ICRFCoordinates' = NoVector
    /\ UNCHANGED tableWrites

Next ==
    \/ \E name \in TableNames, planetIndex \in 0..8 : \E UNIXMilliTime \in Instants(name) :
          computeEclipticCoordinates(name, planetIndex, UNIXMilliTime)
    \/ \E m \in MeanAnomalies, ecc \in Eccentricities : CallSolveKeplerEquation(m, ecc)
    \/ LoopIteration
    \/ ReturnDirect
    \/ ReturnToCompute
    \/ convertToICRF
    \/ Discard

Spec == Init /\ [][Next]_vars

\* ------------------------------------------------------------ properties

InSolver == pc = "loop"
Returned == pc \in {"done", "converted"}
InCompute == caller = "compute"
Row == TableOf(args.keplerianElementsTable)[args.planetIndex + 1]
AtJ2000 == InCompute /\ args.UNIXMilliTime = J2000Instant
IsQuery(name, planetIndex, UNIXMilliTime) ==
    /\ InCompute
    /\ args = [keplerianElementsTable |-> name, planetIndex |-> planetIndex,
               UNIXMilliTime |-> UNIXMilliTime]

\* E - e1*sin(E) - M for the value E a call returned
Residual == E - Mul(e1, SinDeg(E)) - M

\* C1: the value E a direct call solveKeplerEquation(M, e) returns, M in
\* [-180, 180] and e in [0, 0.3), satisfies |E - e1*sin(E) - M| <= 1e-5 degrees.
C1_KeplerRoundTrip ==
    (pc = "done" /\ caller = "direct") => Abs(Residual) <= tolerance

\* C2: whenever the raw mean anomaly of line 45 lies outside [-180, 180], the
\* M handed to solveKeplerEquation lies within [-180, 180].
C2_NormalizedWithinRange ==
    (InCompute /\ OutsideRange(frame.Mraw)) => (-180 * Micro <= M /\ M <= 180 * Micro)

\* C3: the loop of solveKeplerEquation runs at least once and at most 1000 times,
\* and the call then returns the last computed E2, tolerance met or not.
C3_SolverTerminates ==
    /\ i <= MaxIterations
    /\ (InSolver /\ ~LoopCondition(i, difE1E2)) => i >= 1
    /\ Returned => (1 <= i /\ i <= MaxIterations /\ E = E2)
C3_Witness ==
    pc = "done" /\ i = MaxIterations /\ difE1E2 > tolerance /\ E = E2 /\ E # 0

\* C4: no call of computeEclipticCoordinates or convertToICRF changes a cell of
\* keplerianElements2050 or keplerianElements3000.
C4_TablesImmutable ==
    /\ keplerianElements2050 = keplerianElements2050Initial
    /\ keplerianElements3000 = keplerianElements3000Initial
C4_Witness ==
    /\ pc = "converted"
    /\ IsQuery("keplerianElements3000", 8, Instant(20))
    /\ ICRFCoordinates # NoVector

\* C5: solveKeplerEquation(M, 0) returns exactly M, with E0 = M and dE = 0,
\* after a single pass of the loop.
C5_CircularOrbit ==
    (Returned /\ e = 0) => (E = M /\ E0 = M /\ dE = 0 /\ i = 1)
C5_Witness ==
    pc = "done" /\ caller = "direct" /\ e = 0 /\ M # 0 /\ E = M /\ i = 1

\* C6: a raw mean anomaly already in [-180, 180], the two ends included, is
\* handed to solveKeplerEquation unchanged.
C6_PassThrough ==
    (InCompute /\ ~OutsideRange(frame.Mraw)) =>
        (M = WToMicro(frame.Mraw) /\ frame.M = WToMicro(frame.Mraw))
C6_Witness ==
    /\ InCompute
    /\ frame.Mraw = [deg |-> 180, udeg |-> 0]
    /\ M = 180 * Micro

\* C7: at the instant 2000-01-01T12:00:00Z, Teph = 2451545.0 and T = 0; the six
\* elements equal the row's base values, w = W0 - O0, and M = L0 - W0 for a row
\* whose b, c, s, f are zero (-2.473110 degrees for EM Bary of keplerianElements2050).
C7_J2000 ==
    AtJ2000 =>
        /\ frame.Teph = J2000JD
        /\ frame.T = 0
        /\ frame.a = CellMicro(Row[2])
        /\ frame.e = CellScale(Row[3])
        /\ frame.I = CellMicro(Row[4])
        /\ frame.L = WFromMicro(CellMicro(Row[5]))
        /\ frame.W = CellMicro(Row[6])
        /\ frame.O = CellMicro(Row[7])
        /\ frame.w = CellMicro(Row[6]) - CellMicro(Row[7])
        /\ (\A k \in 14..17 : Row[k] = P(0, 0)) =>
               frame.Mraw = WFromMicro(CellMicro(Row[5]) - CellMicro(Row[6]))
        /\ (args.keplerianElementsTable = "keplerianElements2050" /\ args.planetIndex = 2) =>
               frame.Mraw = WFromMicro(-2473110)
C7_Witness ==
    /\ IsQuery("keplerianElements2050", 2, J2000Instant)
    /\ frame.T = 0
    /\ M = -2473110

\* x*x in units of 10^-8 AU^2, x in micro-AU
Square(x) == MulDivQR(Abs(x), Abs(x), Limb)[1]
NormSquared(v) == Square(v[1]) + Square(v[2]) + Square(v[3])
MercuryAtJ2000 ==
    pc = "done" /\ IsQuery("keplerianElements2050", 0, J2000Instant)

\* C8: the vector computeEclipticCoordinates(keplerianElements2050, 0,
\* 946728000000) returns has a magnitude between 0.99*a and 1.01*a.
C8_MercuryWithinOnePercent ==
    MercuryAtJ2000 =>
        /\ Square((99 * frame.a) \div 100) <= NormSquared(EclipticCoordinates)
        /\ NormSquared(EclipticCoordinates) <= Square((101 * frame.a) \div 100)

\* C8 as amended: the magnitude is between 1.20*a and 1.21*a (Mercury is close
\* to aphelion, a*(1+e)), hence within 21% of a.
C8_MercuryNearAphelion ==
    MercuryAtJ2000 =>
        /\ Square((120 * frame.a) \div 100) <= NormSquared(EclipticCoordinates)
        /\ NormSquared(EclipticCoordinates) <= Square((121 * frame.a) \div 100)
C8_Witness ==
    MercuryAtJ2000 /\ EclipticCoordinates # NoVector /\ E = E2

\* C9: every pass of the loop starts from the iterate the pass before produced:
\* once a pass has run, the current iterate E1 is the E2 = E1 + dE it computed.
C9_IterateAdvances ==
    (InSolver /\ i >= 1) => E1 = E2

\* C10: for every row of either table, inside the table's validity interval,
\* 0 <= e < 0.25, the divisor 1 - e*cos(E) is positive and so is 1 - e*e.
C10_BoundOrbit ==
    (InCompute /\ args.keplerianElementsTable # "boundaryElements") =>
        /\ 0 <= frame.e
        /\ frame.e < Scale \div 4
        /\ e = frame.e
        /\ InSolver => Divisor(e, E1) > 0
        /\ Scale - Mul(frame.e, frame.e) > 0
C10_Witness ==
    /\ IsQuery("keplerianElements3000", 8, Instant(20))
    /\ InSolver
    /\ i >= 1
    /\ frame.e > 24 * (Scale \div 100)

====
